---------------------------- MODULE Spec2Model ----------------------------
(***************************************************************************)
(* A model of the mock generator of src/generator/mock.go.                 *)
(*                                                                         *)
(* Strings are sequences of one-character strings, so that the formatting  *)
(* the generator does (fmt.Sprintf, strcase.ToSnake) is computed and an    *)
(* identifier the generator synthesizes can be compared with one it was    *)
(* given.  The code the generator emits (jennifer statements) is a tree of *)
(* records.                                                                *)
(*                                                                         *)
(* Two specifications:                                                     *)
(*   Spec        Generate, as invocations running interleaved on one       *)
(*               generator value;                                          *)
(*   SpecMethod  generateMethod on one method descriptor, statement by     *)
(*               statement as its BlockFunc callback emits them.           *)
(***************************************************************************)
EXTENDS Integers, Sequences, FiniteSets, TLC

VARIABLES
    m,        \* the generator value NewGenerator built (shared by every call)
    in,       \* in[c]: the *pkg.GenerateParams invocation c was given
    calls,    \* calls[c]: the locals of invocation c of Generate
    mpc,      \* generateMethod: position in the callback
    gparams,  \* generateMethod: params (*generatorParams)
    method,   \* generateMethod: method (*types.Function)
    sig,      \* generateMethod: the emitted signature, <<>> until emitted
    body,     \* generateMethod: the statements emitted into the block so far
    retNames, \* generateMethod: retNames
    ri        \* generateMethod: the loop index i over method.Results

vars == <<m, in, calls, mpc, gparams, method, sig, body, retNames, ri>>
genVars == <<m, in, calls>>
methodVars == <<mpc, gparams, method, sig, body, retNames, ri>>

-----------------------------------------------------------------------------
(* Bounds of the model.                                                    *)

MaxArgs == 2
MaxResults == 2

-----------------------------------------------------------------------------
(* Strings.                                                                *)

UpperChars == <<"A","B","C","D","E","F","G","H","I","J","K","L","M",
                "N","O","P","Q","R","S","T","U","V","W","X","Y","Z">>
LowerChars == <<"a","b","c","d","e","f","g","h","i","j","k","l","m",
                "n","o","p","q","r","s","t","u","v","w","x","y","z">>

IsUpper(ch) == \E j \in 1..Len(UpperChars) : UpperChars[j] = ch
IsLower(ch) == \E j \in 1..Len(LowerChars) : LowerChars[j] = ch

\* strings.ToLower on one character
ToLowerChar(ch) ==
    IF IsUpper(ch)
    THEN LowerChars[CHOOSE j \in 1..Len(UpperChars) : UpperChars[j] = ch]
    ELSE ch

ToLower(s) == [j \in 1..Len(s) |-> ToLowerChar(s[j])]

\* strconv.Itoa for i >= 0
DigitChars == <<"0","1","2","3","4","5","6","7","8","9">>
RECURSIVE Itoa(_)
Itoa(i) == IF i < 10 THEN <<DigitChars[i + 1]>>
           ELSE Itoa(i \div 10) \o <<DigitChars[(i % 10) + 1]>>

\* fmt.Sprintf(format, arg) with one string operand.  Verbs: %s takes the
\* operand, a %s with no operand left prints %!s(MISSING), %% prints %, and
\* an operand no verb took is appended as %!(EXTRA string=arg).
RECURSIVE SprintfFrom(_, _, _, _)
SprintfFrom(format, j, arg, used) ==
    IF j > Len(format)
    THEN IF used THEN <<>>
         ELSE <<"%","!","(","E","X","T","R","A"," ","s","t","r","i","n","g","=">>
              \o arg \o <<")">>
    ELSE IF format[j] = "%" /\ j < Len(format) /\ format[j + 1] = "s"
    THEN (IF used THEN <<"%","!","s","(","M","I","S","S","I","N","G",")">> ELSE arg)
         \o SprintfFrom(format, j + 2, arg, TRUE)
    ELSE IF format[j] = "%" /\ j < Len(format) /\ format[j + 1] = "%"
    THEN <<"%">> \o SprintfFrom(format, j + 2, arg, used)
    ELSE <<format[j]>> \o SprintfFrom(format, j + 1, arg, used)

Sprintf(format, arg) == SprintfFrom(format, 1, arg, FALSE)

\* strcase.ToSnake(s) = ToScreamingDelimited(s, '_', false), for s of letters,
\* '_', '-' and inner spaces: a delimiter goes where the letter case changes
\* (before an upper-case letter followed by a lower-case one, after a
\* lower-case letter followed by an upper-case one) unless one was just
\* written; ' ', '_' and '-' become the delimiter; the result is lower-cased.
RECURSIVE SnakeFrom(_, _, _)
SnakeFrom(s, j, n) ==
    IF j > Len(s) THEN ToLower(n)
    ELSE LET v == s[j]
             nextCaseIsChanged ==
                 /\ j < Len(s)
                 /\ \/ IsUpper(v) /\ IsLower(s[j + 1])
                    \/ IsLower(v) /\ IsUpper(s[j + 1])
         IN  IF j > 1 /\ n[Len(n)] # "_" /\ nextCaseIsChanged
             THEN IF IsUpper(v) THEN SnakeFrom(s, j + 1, n \o <<"_", v>>)
                  ELSE SnakeFrom(s, j + 1, n \o <<v, "_">>)
             ELSE IF v \in {" ", "_", "-"}
             THEN SnakeFrom(s, j + 1, n \o <<"_">>)
             ELSE SnakeFrom(s, j + 1, n \o <<v>>)

ToSnake(s) == SnakeFrom(s, 1, <<>>)

-----------------------------------------------------------------------------
(* Program constants and the identifiers the generator writes literally.   *)

pluginRepoURL == <<"g","i","t","h","u","b",".","c","o","m","/","c","v","2","1","/",
                   "g","e","n","-","g","e","n","e","r","a","t","o","r","-","m","o","c","k">>
pluginVersion == <<"1",".","0",".","0">>
mockPackage == <<"g","i","t","h","u","b",".","c","o","m","/","s","t","r","e","t","c","h","r","/",
                 "t","e","s","t","i","f","y","/","m","o","c","k">>

IdM == <<"_","m">>
IdRet == <<"r","e","t">>
IdCalled == <<"_","m",".","C","a","l","l","e","d">>
IdRf == <<"r","f">>
IdOk == <<"o","k">>
IdRetGet == <<"r","e","t",".","G","e","t">>
IdRetError == <<"r","e","t",".","E","r","r","o","r">>

-----------------------------------------------------------------------------
(* The external package pkg, at its boundary.                              *)

\* A type descriptor is [id, isError, isNillable]: id names the type, and
\* isError and isNillable are the answers pkg.IsErrorType and
\* pkg.IsNillableType give for it.
IsErrorType(t) == t.isError
IsNillableType(t) == t.isNillable

\* pkg.TypeQual renders a type for the target package; the rendering is kept
\* as the application itself.
typeQual(params, t) ==
    [src |-> params.SourcePackagePath, tgt |-> params.TargetPackagePath, t |-> t]

-----------------------------------------------------------------------------
(* generateType and generateMethod.                                        *)

\* generateType numbering the type by the invocations that have started
generateType_Shared(mockStructName, interfaceName) ==
    LET started == Cardinality({c \in DOMAIN calls : calls[c].pc # "start"})
    IN  [kind |-> "type",
         comment |-> <<mockStructName, interfaceName>>,
         name |-> mockStructName \o Itoa(started),
         embeds |-> <<[pkg |-> mockPackage, id |-> <<"M","o","c","k">>]>>]

generateType(mockStructName, interfaceName) ==
    [kind |-> "type",
     comment |-> <<mockStructName, interfaceName>>,
     name |-> mockStructName,
     embeds |-> <<[pkg |-> mockPackage, id |-> <<"M","o","c","k">>]>>]

\* fmt.Sprintf("r%d", i)
RetName(i) == <<"r">> \o Itoa(i)

\* the parameter list: one Id(a.Name).Add(typeQual(a.Type)) per argument
SignatureParams(params, meth) ==
    [j \in 1..Len(meth.Args) |->
        [name |-> meth.Args[j].Name, type |-> typeQual(params, meth.Args[j].Type)]]

\* the result list: one Id(r.Name).Add(typeQual(r.Type)) per result
SignatureResults(params, meth) ==
    [j \in 1..Len(meth.Results) |->
        [name |-> meth.Results[j].Name, type |-> typeQual(params, meth.Results[j].Type)]]

Signature(params, interfaceName, mockStructName, meth) ==
    [kind |-> "func",
     comment |-> <<meth.Name, meth.Name, interfaceName>>,
     recv |-> [name |-> IdM, type |-> Sprintf(<<"*","%","s">>, mockStructName)],
     name |-> meth.Name,
     params |-> SignatureParams(params, meth),
     results |-> SignatureResults(params, meth)]

\* for _, a := range method.Args { g.Id(a.Name) }
ArgIds(meth) == [j \in 1..Len(meth.Args) |-> meth.Args[j].Name]

\* for _, a := range method.Args { g.Add(typeQual(params, a.Type)) }
ArgTypeQuals(params, meth) ==
    [j \in 1..Len(meth.Args) |-> typeQual(params, meth.Args[j].Type)]

\* CalledStmt recording the call without its arguments
CalledStmt_NoArgs(meth) ==
    [op |-> "define", lhs |-> IdRet, fn |-> IdCalled, args |-> <<>>]

\* ret := _m.Called(a, b)
CalledStmt(meth) ==
    [op |-> "define", lhs |-> IdRet, fn |-> IdCalled, args |-> ArgIds(meth)]

\* var r0 T
VarStmt(params, r, currentRetName) ==
    [op |-> "var", name |-> currentRetName, type |-> typeQual(params, r.Type)]

\* r0 = ret.Get(0).(T)
ConvertStmt(params, r, i, currentRetName) ==
    [op |-> "assign", lhs |-> currentRetName,
     rhs |-> [form |-> "assert", fn |-> IdRetGet, idx |-> i,
              type |-> typeQual(params, r.Type)]]

\* ElseBlock with the nillable test made before the error test
ElseBlock_NillableFirst(params, r, i, currentRetName) ==
    IF IsNillableType(r.Type)
    THEN <<[op |-> "ifnotnil", src |-> [fn |-> IdRetGet, idx |-> i],
            then |-> <<ConvertStmt(params, r, i, currentRetName)>>]>>
    ELSE IF IsErrorType(r.Type)
    THEN <<[op |-> "assign", lhs |-> currentRetName,
            rhs |-> [form |-> "slot", fn |-> IdRetError, idx |-> i]]>>
    ELSE <<ConvertStmt(params, r, i, currentRetName)>>

\* the else block: the extraction the result's type is classified to
ElseBlock(params, r, i, currentRetName) ==
    IF IsErrorType(r.Type)
    THEN <<[op |-> "assign", lhs |-> currentRetName,
            rhs |-> [form |-> "slot", fn |-> IdRetError, idx |-> i]]>>
    ELSE IF IsNillableType(r.Type)
    THEN <<[op |-> "ifnotnil", src |-> [fn |-> IdRetGet, idx |-> i],
            then |-> <<ConvertStmt(params, r, i, currentRetName)>>]>>
    ELSE <<ConvertStmt(params, r, i, currentRetName)>>

\* OverrideIf with the override asserted against the method's first result
\* type instead of the type of result i
OverrideIf_FirstResultType(params, meth, r, i, currentRetName) ==
    [op |-> "if",
     lhs |-> <<IdRf, IdOk>>,
     src |-> [fn |-> IdRetGet, idx |-> i],
     assert |-> [params |-> ArgTypeQuals(params, meth),
                 result |-> typeQual(params, meth.Results[1].Type)],
     cond |-> IdOk,
     then |-> <<[op |-> "assign", lhs |-> currentRetName,
                 rhs |-> [form |-> "call", fn |-> IdRf, args |-> ArgIds(meth)]]>>,
     else |-> ElseBlock(params, r, i, currentRetName)]

\* if rf, ok := ret.Get(0).(func(A, B) T); ok { r0 = rf(a, b) } else { ... }
OverrideIf(params, meth, r, i, currentRetName) ==
    [op |-> "if",
     lhs |-> <<IdRf, IdOk>>,
     src |-> [fn |-> IdRetGet, idx |-> i],
     assert |-> [params |-> ArgTypeQuals(params, meth),
                 result |-> typeQual(params, r.Type)],
     cond |-> IdOk,
     then |-> <<[op |-> "assign", lhs |-> currentRetName,
                 rhs |-> [form |-> "call", fn |-> IdRf, args |-> ArgIds(meth)]]>>,
     else |-> ElseBlock(params, r, i, currentRetName)]

\* one iteration of the loop over method.Results, i counted from 0
ResultStmts(params, meth, i) ==
    LET r == meth.Results[i + 1]
        currentRetName == RetName(i)
    IN  <<VarStmt(params, r, currentRetName),
          OverrideIf(params, meth, r, i, currentRetName)>>

\* return r0, r1
ReturnStmt(names) == [op |-> "return", names |-> names]

RECURSIVE LoopStmts(_, _, _)
LoopStmts(params, meth, i) ==
    IF i >= Len(meth.Results) THEN <<>>
    ELSE ResultStmts(params, meth, i) \o LoopStmts(params, meth, i + 1)

MethodBody(params, meth) ==
    <<CalledStmt(meth)>>
    \o LoopStmts(params, meth, 0)
    \o <<ReturnStmt([j \in 1..Len(meth.Results) |-> RetName(j - 1)])>>

\* the declaration: the signature and the block
FuncDecl(signature, block) ==
    [kind |-> signature.kind, comment |-> signature.comment, recv |-> signature.recv,
     name |-> signature.name, params |-> signature.params,
     results |-> signature.results, body |-> block]

generateMethod(params, interfaceName, mockStructName, meth) ==
    FuncDecl(Signature(params, interfaceName, mockStructName, meth),
             MethodBody(params, meth))

\* buildMockStructName ignoring the template
buildMockStructName_DefaultOnly(template, interfaceName) ==
    Sprintf(<<"%","s","M","o","c","k">>, interfaceName)

\* Returns a mock structure name by given interfaceName.
buildMockStructName(template, interfaceName) ==
    Sprintf(IF template = <<>> THEN <<"%","s","M","o","c","k">> ELSE template,
            interfaceName)

-----------------------------------------------------------------------------
(* Generate: the inputs.                                                   *)

Calls == {"c1", "c2"}

TString == [id |-> "string", isError |-> FALSE, isNillable |-> FALSE]
TInt == [id |-> "int", isError |-> FALSE, isNillable |-> FALSE]
TError == [id |-> "error", isError |-> TRUE, isNillable |-> FALSE]
TBlaPtr == [id |-> "*bla.Bla", isError |-> FALSE, isNillable |-> TRUE]

NameStringService == <<"S","t","r","i","n","g","S","e","r","v","i","c","e">>
NameFoo == <<"F","o","o">>
NameEmpty == <<"E","m","p","t","y">>

\* Concat(a string, b string) string
MConcat ==
    [Name |-> <<"C","o","n","c","a","t">>,
     Args |-> <<[Name |-> <<"a">>, Type |-> TString], [Name |-> <<"b">>, Type |-> TString]>>,
     Results |-> <<[Name |-> <<>>, Type |-> TString]>>]
\* Get(a string) (*bla.Bla, error)
MGet ==
    [Name |-> <<"G","e","t">>,
     Args |-> <<[Name |-> <<"a">>, Type |-> TString]>>,
     Results |-> <<[Name |-> <<>>, Type |-> TBlaPtr], [Name |-> <<>>, Type |-> TError]>>]
\* Get(b int) (n int), a second method of the same name
MGetAgain ==
    [Name |-> <<"G","e","t">>,
     Args |-> <<[Name |-> <<"b">>, Type |-> TInt]>>,
     Results |-> <<[Name |-> <<"n">>, Type |-> TInt]>>]
\* Close()
MClose == [Name |-> <<"C","l","o","s","e">>, Args |-> <<>>, Results |-> <<>>]

FileA ==
    [Interfaces |-> <<[Name |-> NameStringService, Methods |-> <<MConcat>>],
                      [Name |-> NameFoo, Methods |-> <<MGet, MGetAgain, MClose>>],
                      [Name |-> NameEmpty, Methods |-> <<>>]>>]
FileB ==
    [Interfaces |-> <<[Name |-> NameFoo, Methods |-> <<MClose, MGet>>]>>]

TemplateGenerated == <<".","/","g","e","n","e","r","a","t","e","d","/","%","s",
                       "_","m","o","c","k",".","g","o">>
TemplateNoVerb == <<"o","u","t",".","g","o">>
TemplateMyDouble == <<"M","y","%","s","D","o","u","b","l","e">>

\* params := &generatorParams{}
generatorParamsZero ==
    [InterfaceName |-> <<>>, OutPathTemplate |-> <<>>, SourcePackagePath |-> <<>>,
     TargetPackagePath |-> <<>>, MockStructNameTemplate |-> <<>>]

ParamsPool ==
    [InterfaceName : {NameStringService, NameFoo, NameEmpty},
     OutPathTemplate : {TemplateGenerated, TemplateNoVerb},
     SourcePackagePath : {<<"p">>},
     TargetPackagePath : {<<"p">>, <<"q">>},
     MockStructNameTemplate : {<<>>, TemplateMyDouble}]

\* p.Params is a blob json.Unmarshal either rejects or decodes to value
Blobs == {[ok |-> FALSE, value |-> generatorParamsZero]}
         \cup {[ok |-> TRUE, value |-> v] : v \in ParamsPool}

GenerateParams == [File : {FileA, FileB}, Params : Blobs]

\* NewGenerator()
NewGenerator ==
    [logger |-> [Level |-> "Trace", Output |-> "Stderr", JSONFormat |-> TRUE]]

-----------------------------------------------------------------------------
(* Generate.                                                               *)

\* pkg.FindInterface: the first interface of the file with the name, or nil
\* (<<>>) when the file has none
FindInterface(file, name) ==
    LET hits == {j \in 1..Len(file.Interfaces) : file.Interfaces[j].Name = name}
    IN  IF hits = {} THEN <<>>
        ELSE <<file.Interfaces[CHOOSE j \in hits : \A h \in hits : j <= h]>>

\* OutputPath formatting the interface name as it is
OutputPath_NoSnake(params, iface) == Sprintf(params.OutPathTemplate, iface.Name)

\* Path: fmt.Sprintf(params.OutPathTemplate, strcase.ToSnake(iface.Name))
OutputPath(params, iface) == Sprintf(params.OutPathTemplate, ToSnake(iface.Name))

\* Content: fmt.Sprintf("%#v", pkg.AddDefaultPackageComment(f, url, version)),
\* kept as the unit that is rendered
OutputContent(fpath, fdecls) ==
    [comment |-> <<pluginRepoURL, pluginVersion>>, package |-> fpath, decls |-> fdecls]

\* RangeMethod ranging from the last method to the first
RangeMethod_Reversed(iface, k) == iface.Methods[Len(iface.Methods) + 1 - k]

\* for _, method := range iface.Methods: the method of iteration k
RangeMethod(iface, k) == iface.Methods[k]

StartLocals ==
    [pc |-> "start", params |-> generatorParamsZero, iface |-> <<>>, fpath |-> <<>>,
     fdecls |-> <<>>, mockStructName |-> <<>>, k |-> 0, result |-> <<>>, err |-> "nil"]

\* json.Unmarshal(p.Params, params); on an error, return nil, err
Decode(c) ==
    /\ calls[c].pc = "start"
    /\ calls' = [calls EXCEPT ![c] =
          IF in[c].Params.ok
          THEN [@ EXCEPT !.pc = "decoded", !.params = in[c].Params.value]
          ELSE [@ EXCEPT !.pc = "returned", !.err = "unmarshal"]]
    /\ UNCHANGED <<m, in, methodVars>>

\* FindInterface, NewFilePath, buildMockStructName and f.Add(generateType):
\* iface.Name of a nil iface is a nil pointer dereference
Lookup(c) ==
    /\ calls[c].pc = "decoded"
    /\ LET l == calls[c]
           iface == FindInterface(in[c].File, l.params.InterfaceName)
       IN  calls' = [calls EXCEPT ![c] =
             IF iface = <<>>
             THEN [l EXCEPT !.pc = "panicked", !.fpath = l.params.TargetPackagePath]
             ELSE LET mockStructName ==
                          buildMockStructName(l.params.MockStructNameTemplate, iface[1].Name)
                  IN  [l EXCEPT !.pc = "methods",
                                !.iface = iface,
                                !.fpath = l.params.TargetPackagePath,
                                !.mockStructName = mockStructName,
                                !.fdecls = <<generateType(mockStructName, iface[1].Name)>>,
                                !.k = 1]]
    /\ UNCHANGED <<m, in, methodVars>>

\* one iteration of the loop over iface.Methods
AddMethod(c) ==
    /\ calls[c].pc = "methods"
    /\ calls[c].k <= Len(calls[c].iface[1].Methods)
    /\ LET l == calls[c]
       IN  calls' = [calls EXCEPT ![c] =
             [l EXCEPT !.fdecls = Append(l.fdecls,
                           generateMethod(l.params, l.iface[1].Name, l.mockStructName,
                                          RangeMethod(l.iface[1], l.k))),
                       !.k = l.k + 1]]
    /\ UNCHANGED <<m, in, methodVars>>

\* return &pkg.GenerateResult{Files: ...}, nil
Return(c) ==
    /\ calls[c].pc = "methods"
    /\ calls[c].k > Len(calls[c].iface[1].Methods)
    /\ LET l == calls[c]
       IN  calls' = [calls EXCEPT ![c] =
             [l EXCEPT !.pc = "returned",
                       !.result = <<[Files |-> <<[Path |-> OutputPath(l.params, l.iface[1]),
                                                  Content |-> OutputContent(l.fpath, l.fdecls)]>>]>>]]
    /\ UNCHANGED <<m, in, methodVars>>

-----------------------------------------------------------------------------
(* generateMethod, statement by statement.                                 *)

ArgNamePool == {<<"a">>, <<"b">>, <<"r","0">>}
ArgTypePool == {TString, TInt}
ResultNamePool == {<<"x">>, <<"r","0">>}
ResultTypePool == [id : {"T"}, isError : BOOLEAN, isNillable : BOOLEAN]

SeqsUpTo(S, n) == UNION {[1..len -> S] : len \in 0..n}
DistinctNames(s) == \A i, j \in 1..Len(s) : i # j => s[i].Name # s[j].Name

\* argument lists: every argument named, the names distinct
ArgLists ==
    {s \in SeqsUpTo([Name : ArgNamePool, Type : ArgTypePool], MaxArgs) : DistinctNames(s)}

\* result lists: all results unnamed, or all named with distinct names
ResultLists ==
    SeqsUpTo([Name : {<<>>}, Type : ResultTypePool], MaxResults)
    \cup {s \in SeqsUpTo([Name : ResultNamePool, Type : ResultTypePool], MaxResults) :
            DistinctNames(s)}

\* the methods an interface can declare: no result is named as an argument is
Methods ==
    {meth \in [Name : {<<"G","e","t">>}, Args : ArgLists, Results : ResultLists] :
        \A i \in 1..Len(meth.Args), j \in 1..Len(meth.Results) :
            meth.Args[i].Name # meth.Results[j].Name}

MethodParams ==
    [generatorParamsZero EXCEPT !.InterfaceName = NameFoo,
                                !.SourcePackagePath = <<"p">>,
                                !.TargetPackagePath = <<"q">>]
MethodMockStructName == buildMockStructName(<<>>, NameFoo)

\* Commentf, Func, Params, Id, and the two ParamsFunc callbacks
EmitSignature ==
    /\ mpc = "signature"
    /\ sig' = <<Signature(gparams, NameFoo, MethodMockStructName, method)>>
    /\ mpc' = "called"
    /\ UNCHANGED <<gparams, method, body, retNames, ri, genVars>>

\* the block's first statement
EmitCalled ==
    /\ mpc = "called"
    /\ body' = Append(body, CalledStmt(method))
    /\ mpc' = "results"
    /\ UNCHANGED <<gparams, method, sig, retNames, ri, genVars>>

\* one iteration of the loop over method.Results
EmitResult ==
    /\ mpc = "results"
    /\ ri < Len(method.Results)
    /\ retNames' = Append(retNames, RetName(ri))
    /\ body' = body \o ResultStmts(gparams, method, ri)
    /\ ri' = ri + 1
    /\ UNCHANGED <<mpc, gparams, method, sig, genVars>>

\* g.ReturnFunc over retNames
EmitReturn ==
    /\ mpc = "results"
    /\ ri >= Len(method.Results)
    /\ body' = Append(body, ReturnStmt(retNames))
    /\ mpc' = "done"
    /\ UNCHANGED <<gparams, method, sig, retNames, ri, genVars>>

-----------------------------------------------------------------------------
(* The specifications.                                                     *)

Init ==
    /\ m = NewGenerator
    /\ in \in [Calls -> GenerateParams]
    /\ calls = [c \in Calls |-> StartLocals]
    /\ mpc = "idle"
    /\ gparams = generatorParamsZero
    /\ method = MClose
    /\ sig = <<>>
    /\ body = <<>>
    /\ retNames = <<>>
    /\ ri = 0

Next ==
    \E c \in Calls :
        \/ Decode(c)
        \/ Lookup(c)
        \/ AddMethod(c)
        \/ Return(c)

Spec == Init /\ [][Next]_vars

InitMethod ==
    /\ m = NewGenerator
    /\ in = [c \in Calls |-> [File |-> [Interfaces |-> <<>>],
                               Params |-> [ok |-> FALSE, value |-> generatorParamsZero]]]
    /\ calls = [c \in Calls |-> StartLocals]
    /\ mpc = "signature"
    /\ gparams = MethodParams
    /\ method \in Methods
    /\ sig = <<>>
    /\ body = <<>>
    /\ retNames = <<>>
    /\ ri = 0

NextMethod ==
    \/ EmitSignature
    \/ EmitCalled
    \/ EmitResult
    \/ EmitReturn

SpecMethod == InitMethod /\ [][NextMethod]_vars

-----------------------------------------------------------------------------
(* Properties of generateMethod (checked under SpecMethod).                *)

\* the accessors (ret.Get, ret.Error) a statement reads a slot through
AssignFns(st) ==
    IF st.op = "assign" /\ st.rhs.form \in {"slot", "assert"} THEN {st.rhs.fn} ELSE {}
GuardFns(st) ==
    IF st.op = "ifnotnil"
    THEN {st.src.fn} \cup UNION {AssignFns(st.then[j]) : j \in 1..Len(st.then)}
    ELSE AssignFns(st)
SlotFns(st) ==
    IF st.op = "if"
    THEN {st.src.fn} \cup UNION {GuardFns(st.then[j]) : j \in 1..Len(st.then)}
                     \cup UNION {GuardFns(st.else[j]) : j \in 1..Len(st.else)}
    ELSE GuardFns(st)

\* the positions in the block of the override statements of result i
IfsOf(i) == {j \in 1..Len(body) : body[j].op = "if" /\ body[j].src.idx = i}
TheIfOf(i) == body[CHOOSE j \in IfsOf(i) : TRUE]

\* r_i = ret.Error(i)
IsErrorRead(st, i) ==
    /\ st.op = "assign"
    /\ st.lhs = <<"r">> \o Itoa(i)
    /\ st.rhs.form = "slot"
    /\ st.rhs.fn = <<"r","e","t",".","E","r","r","o","r">>
    /\ st.rhs.idx = i

\* r_i = ret.Get(i).(T), T the rendering of result i's type
IsConversion(st, i) ==
    /\ st.op = "assign"
    /\ st.lhs = <<"r">> \o Itoa(i)
    /\ st.rhs.form = "assert"
    /\ st.rhs.fn = <<"r","e","t",".","G","e","t">>
    /\ st.rhs.idx = i
    /\ st.rhs.type = typeQual(gparams, method.Results[i + 1].Type)

\* if ret.Get(i) != nil { r_i = ret.Get(i).(T) }
IsGuardedConversion(st, i) ==
    /\ st.op = "ifnotnil"
    /\ st.src.fn = <<"r","e","t",".","G","e","t">>
    /\ st.src.idx = i
    /\ Len(st.then) = 1
    /\ IsConversion(st.then[1], i)

\* C1: the classified extraction of every emitted result is one statement:
\* the error-slot read when the type is error-kind (also when it is nillable
\* too), else the guarded conversion when it is nillable-kind, else the
\* unguarded conversion.
C1_ClassifiedExtraction ==
    \A i \in 0..(ri - 1) :
        /\ Cardinality(IfsOf(i)) = 1
        /\ LET t == method.Results[i + 1].Type
               e == TheIfOf(i).else
           IN  /\ Len(e) = 1
               /\ IF t.isError THEN IsErrorRead(e[1], i)
                  ELSE IF t.isNillable THEN IsGuardedConversion(e[1], i)
                  ELSE IsConversion(e[1], i)

\* a finished method whose first result is error-kind and nillable-kind and
\* read from the error slot, and whose second is nillable-kind only
C1_Witness ==
    /\ mpc = "done"
    /\ Len(method.Results) = 2
    /\ method.Results[1].Type.isError /\ method.Results[1].Type.isNillable
    /\ ~method.Results[2].Type.isError /\ method.Results[2].Type.isNillable
    /\ IsErrorRead(TheIfOf(0).else[1], 0)
    /\ IsGuardedConversion(TheIfOf(1).else[1], 1)

\* every assignment of a branch is to target, every slot read is of slot i
BranchTouchesOnly(branch, i) ==
    \A j \in 1..Len(branch) :
        LET st == branch[j]
        IN  /\ st.op = "assign" =>
                 /\ st.lhs = <<"r">> \o Itoa(i)
                 /\ st.rhs.form # "call" => st.rhs.idx = i
            /\ st.op = "ifnotnil" =>
                 /\ st.src.idx = i
                 /\ \A h \in 1..Len(st.then) :
                        /\ st.then[h].lhs = <<"r">> \o Itoa(i)
                        /\ st.then[h].rhs.idx = i

VarNames == [j \in 1..Len(SelectSeq(body, LAMBDA st : st.op = "var")) |->
                SelectSeq(body, LAMBDA st : st.op = "var")[j].name]

\* C4: the signature keeps every result's name, the extraction variables are
\* r0, r1, ... by position, and none of them is the name of an argument, of a
\* named result, of the receiver or of the recorded-call variable.
C4_NoCollision ==
    /\ sig # <<>> =>
          \A j \in 1..Len(method.Results) : sig[1].results[j].name = method.Results[j].Name
    /\ \A j \in 1..Len(VarNames) :
          /\ VarNames[j] = <<"r">> \o Itoa(j - 1)
          /\ \A a \in 1..Len(method.Args) : VarNames[j] # method.Args[a].Name
          /\ \A r \in 1..Len(method.Results) : VarNames[j] # method.Results[r].Name
          /\ VarNames[j] # <<"_","m">>
          /\ VarNames[j] # <<"r","e","t">>

\* C10: in a finished block, ret is read by a statement after the recording
\* statement, every r_i is declared once, and the return statement is the
\* last statement and lists r0..r(n-1) in order.
C10_LocalsUsed ==
    mpc = "done" =>
        /\ \E j \in 2..Len(body) : SlotFns(body[j]) # {}
        /\ VarNames = [j \in 1..Len(method.Results) |-> <<"r">> \o Itoa(j - 1)]
        /\ body[Len(body)] = [op |-> "return", names |-> VarNames]
        /\ \A j \in 1..(Len(body) - 1) : body[j].op # "return"

-----------------------------------------------------------------------------
(* Properties of Generate (checked under Spec).                            *)

\* the interfaces of invocation c's file that have the requested name
Requested(c) ==
    {j \in 1..Len(in[c].File.Interfaces) :
        in[c].File.Interfaces[j].Name = in[c].Params.value.InterfaceName}

\* the requested interface: the first of them
RequestedInterface(c) ==
    in[c].File.Interfaces[CHOOSE j \in Requested(c) : \A h \in Requested(c) : j <= h]

\* C5: an invocation whose blob decodes and whose file has no interface of
\* the requested name does not terminate abnormally, and when it has
\* returned it has returned an error and no result.
C5_NotFoundIsAnError ==
    \A c \in Calls :
        (in[c].Params.ok /\ Requested(c) = {}) =>
            /\ calls[c].pc # "panicked"
            /\ calls[c].pc = "returned" => (calls[c].err # "nil" /\ calls[c].result = <<>>)

\* declaration d is the method declaration of method meth: same name, and
\* the parameters and the results in the descriptor's order and number
DeclaresMethod(d, meth, params) ==
    /\ d.kind = "func"
    /\ d.name = meth.Name
    /\ Len(d.params) = Len(meth.Args)
    /\ \A j \in 1..Len(meth.Args) :
          d.params[j] = [name |-> meth.Args[j].Name,
                         type |-> typeQual(params, meth.Args[j].Type)]
    /\ Len(d.results) = Len(meth.Results)
    /\ \A j \in 1..Len(meth.Results) :
          d.results[j] = [name |-> meth.Results[j].Name,
                          type |-> typeQual(params, meth.Results[j].Type)]
    /\ d.body[1].args = [j \in 1..Len(meth.Args) |-> meth.Args[j].Name]

\* C6: the unit is the type declaration followed by one method declaration
\* per method handled so far, the k-th from the k-th method of the
\* interface; the unit returned has all n of them.
C6_MethodsInOrder ==
    \A c \in Calls :
        calls[c].fdecls # <<>> =>
            LET decls == calls[c].fdecls
                meths == RequestedInterface(c).Methods
            IN  /\ decls[1].kind = "type"
                /\ Len(decls) = calls[c].k
                /\ Len(decls) <= 1 + Len(meths)
                /\ \A k \in 1..(Len(decls) - 1) :
                      DeclaresMethod(decls[k + 1], meths[k], in[c].Params.value)
                /\ calls[c].pc = "returned" =>
                      /\ Len(decls) = 1 + Len(meths)
                      /\ calls[c].result[1].Files[1].Content.decls = decls

\* one invocation has returned the unit of the three-method interface (two
\* of its methods share a name), the other the unit of the empty interface
C6_Witness ==
    \E c, d \in Calls :
        /\ calls[c].pc = "returned" /\ calls[d].pc = "returned"
        /\ in[c].File = FileA /\ in[c].Params.value.InterfaceName = NameFoo
        /\ Len(calls[c].result[1].Files[1].Content.decls) = 4
        /\ in[d].File = FileA /\ in[d].Params.value.InterfaceName = NameEmpty
        /\ Len(calls[d].result[1].Files[1].Content.decls) = 1

\* C7: an invocation that returned without an error returned one result
\* holding one file, whose path is the output template formatted with the
\* snake-case of the requested interface name; "./generated/%s_mock.go" and
\* "StringService" give "./generated/string_service_mock.go".
C7_OnePairAtPath ==
    \A c \in Calls :
        (calls[c].pc = "returned" /\ calls[c].err = "nil") =>
            LET p == in[c].Params.value
            IN  /\ Len(calls[c].result) = 1
                /\ Len(calls[c].result[1].Files) = 1
                /\ calls[c].result[1].Files[1].Path =
                       Sprintf(p.OutPathTemplate, ToSnake(p.InterfaceName))
                /\ (p.OutPathTemplate = TemplateGenerated /\ p.InterfaceName = NameStringService) =>
                       calls[c].result[1].Files[1].Path =
                           <<".","/","g","e","n","e","r","a","t","e","d","/",
                             "s","t","r","i","n","g","_","s","e","r","v","i","c","e",
                             "_","m","o","c","k",".","g","o">>

\* an invocation for StringService with the ./generated/%s_mock.go template
\* has returned its file
C7_Witness ==
    \E c \in Calls :
        /\ calls[c].pc = "returned" /\ calls[c].err = "nil"
        /\ in[c].Params.value.OutPathTemplate = TemplateGenerated
        /\ in[c].Params.value.InterfaceName = NameStringService
        /\ Len(calls[c].result[1].Files) = 1

\* C8: the type declaration is named format(template, interfaceName), with
\* "%sMock" for the empty template, and every method's receiver type is a
\* pointer to that name; "" and "StringService" give "StringServiceMock",
\* "My%sDouble" and "Foo" give "MyFooDouble".
C8_MockStructName ==
    \A c \in Calls :
        calls[c].fdecls # <<>> =>
            LET p == in[c].Params.value
                id == Sprintf(IF p.MockStructNameTemplate = <<>>
                              THEN <<"%","s","M","o","c","k">>
                              ELSE p.MockStructNameTemplate, p.InterfaceName)
            IN  /\ calls[c].fdecls[1].name = id
                /\ \A k \in 2..Len(calls[c].fdecls) :
                      calls[c].fdecls[k].recv.type = <<"*">> \o id
                /\ (p.MockStructNameTemplate = <<>> /\ p.InterfaceName = NameStringService) =>
                      id = <<"S","t","r","i","n","g","S","e","r","v","i","c","e","M","o","c","k">>
                /\ (p.MockStructNameTemplate = TemplateMyDouble /\ p.InterfaceName = NameFoo) =>
                      id = <<"M","y","F","o","o","D","o","u","b","l","e">>

\* one invocation with the My%sDouble template and one with the empty
\* template have each added a method declaration
C8_Witness ==
    \E c, d \in Calls :
        /\ in[c].Params.value.MockStructNameTemplate = TemplateMyDouble
        /\ in[c].Params.value.InterfaceName = NameFoo
        /\ Len(calls[c].fdecls) >= 2
        /\ in[d].Params.value.MockStructNameTemplate = <<>>
        /\ in[d].Params.value.InterfaceName = NameStringService
        /\ Len(calls[d].fdecls) >= 2

\* at the same position of Generate, invocations given the same input hold
\* the same locals
SameInputSameLocals ==
    \A c, d \in Calls :
        (in[c] = in[d] /\ calls[c].pc = calls[d].pc /\ calls[c].k = calls[d].k) =>
            calls[c] = calls[d]

\* C9: however the invocations interleave, two given the same file and blob
\* hold the same locals at the same position, so they end the same way with
\* the same (path, content); and no step changes the generator value or any
\* invocation's input.
C9_Independent ==
    /\ []SameInputSameLocals
    /\ [][m' = m /\ in' = in]_vars

\* two invocations given the same input have both returned a file
C9_Witness ==
    \E c, d \in Calls :
        /\ c # d
        /\ in[c] = in[d]
        /\ calls[c].pc = "returned" /\ calls[d].pc = "returned"
        /\ calls[c].result # <<>>
        /\ calls[c].result = calls[d].result

=============================================================================
